---- MODULE Spec2Model ----
(***************************************************************************)
(* OpenRCT2 input dispatch: InputManager (openrct2-ui/input/               *)
(* InputManager.cpp).  The per-frame handler InputManager::Process() runs  *)
(* CheckJoysticks, HandleModifiers, ProcessEvents and HandleViewScrolling  *)
(* in that order on the UI thread; pc is the position inside that handler  *)
(* (0: outside it).  Calls into collaborators that live outside this file  *)
(* (shortcut manager, console, chat, windows, SDL) are recorded in logs.   *)
(***************************************************************************)
EXTENDS Integers, Sequences, FiniteSets, TLC

VARIABLES
    pc,                       \* 0: outside Process(); k: about to run ProcessSteps[k]
    crashed,                  \* the process died on a null window dereference
    _events,                  \* std::queue<InputEvent> _events
    queuedLog,                \* history: every event handed to QueueInputEvent, in order
    processedLog,             \* history: every event handed to Process(e), in order
    queuedAtBegin,            \* history: Len(queuedLog) when the current frame began
    queuedInFrame,            \* history: an event was queued while the frame was running
    sdlLog,                   \* history: every SDL_Event handed to QueueInputEvent, in order
    consoleOpen,              \* GetInGameConsole().IsOpen()
    gChatOpen,
    textInputWindow,          \* window_find_by_class(WC_TEXTINPUT) != nullptr
    gUsingWidgetTextBox,
    calls,                    \* collaborator calls made by the latest Process(e)
    ticks,                    \* SDL_GetTicks(), a uint32 kept as <<high, low>> 16-bit limbs
    tickCount,                \* history: how often the clock advanced
    _lastJoystickCheck,       \* uint32, same representation
    _joysticks,               \* std::vector<SDL_Joystick*>, the opened device indexes
    didRescan,                \* history: the latest CheckJoysticks call rescanned
    hadRescan,                \* history: some rescan has happened
    sinceRescan,              \* history: ms elapsed since the latest rescan (capped)
    modState,                 \* SDL_GetModState(): the set of modifier keys held
    gInputPlaceObjectModifier,\* set of flag bits
    virtual_floor_style,      \* gConfigGeneral.virtual_floor_style
    virtualFloorEnabled,
    modCalls,                 \* collaborator calls made by the latest HandleModifiers
    prevPlaceModifier,        \* history: gInputPlaceObjectModifier before the latest HandleModifiers
    MACOSX,                   \* the build defines __MACOSX__
    titleDemo,                \* gScreenFlags & SCREEN_FLAGS_TITLE_DEMO
    mainWindow,               \* window_get_main(): "nullptr" or a window
    _viewScroll,              \* ScreenCoordsXY
    edge_scrolling,           \* gConfigGeneral.edge_scrolling
    inputState,               \* input_get_state()
    viewCalls,                \* collaborator calls made by the latest HandleViewScrolling
    joyDone,                  \* history: CheckJoysticks ran in the current frame
    modsDone,                 \* history: HandleModifiers ran in the current frame
    sampledMods,              \* history: the modifier state HandleModifiers read last
    viewDone,                 \* history: HandleViewScrolling ran in the current frame
    ride                      \* the latest lookup in the ride type descriptors

frameVars == <<joyDone, modsDone, viewDone>>
queueVars == <<_events, queuedLog, processedLog, queuedAtBegin, queuedInFrame, sdlLog>>
uiVars    == <<consoleOpen, gChatOpen, textInputWindow, gUsingWidgetTextBox>>
clockVars == <<ticks, tickCount>>
joyVars   == <<_lastJoystickCheck, _joysticks, didRescan, hadRescan, sinceRescan>>
modVars   == <<gInputPlaceObjectModifier, virtualFloorEnabled, modCalls, sampledMods,
               prevPlaceModifier>>
modEnv    == <<modState, virtual_floor_style, MACOSX>>
viewEnv   == <<titleDemo, mainWindow, _viewScroll, edge_scrolling, inputState>>

vars == <<pc, crashed, queueVars, uiVars, calls, clockVars, joyVars, modVars, modEnv,
          viewEnv, viewCalls, frameVars, ride>>

----------------------------------------------------------------------------
(* Bounds of the model *)

MaxQueued == 3          \* events queued in a run of the frame pipeline
MaxSdl == 3             \* raw SDL events handed to QueueInputEvent(const SDL_Event&)
MaxRouted == 1          \* events queued in a run of the routing specification
MaxTicks == 7           \* clock advances in a run of the joystick specification
MaxJoysticks == 2       \* SDL_NumJoysticks() ranges over 0..MaxJoysticks

(* Program constants *)

SDL_HAT_CENTERED == 0
CHECK_INTERVAL_MS == 5000
Limb == 65536           \* a uint32_t is two 16-bit limbs
SDLK_ESCAPE == 27
SDLK_RETURN == 13
SDLK_KP_ENTER == 1073741912
SDLK_UP == 1073741906
SDLK_DOWN == 1073741905
SDLK_PAGEUP == 1073741899
SDLK_PAGEDOWN == 1073741902
SDLK_a == 97
PLACE_OBJECT_MODIFIER_SHIFT_Z == 1
PLACE_OBJECT_MODIFIER_COPY_Z == 2
PLACE_OBJECT_MODIFIER_ALT == 4
PLACE_OBJECT_MODIFIER_GUI == 8

KMOD_SHIFT == {"LSHIFT", "RSHIFT"}
KMOD_CTRL == {"LCTRL", "RCTRL"}
KMOD_ALT == {"LALT", "RALT"}
KMOD_GUI == {"LGUI", "RGUI"}

----------------------------------------------------------------------------
(* Input events *)

InputEvent(kind, state, button) ==
    [DeviceKind |-> kind, Modifiers |-> {}, Button |-> button, State |-> state]

KeyCodes == {SDLK_ESCAPE, SDLK_RETURN, SDLK_KP_ENTER, SDLK_UP, SDLK_DOWN,
             SDLK_PAGEUP, SDLK_PAGEDOWN, SDLK_a}

EventStates == {"Down", "Release"}

\* Every keyboard event over the keys the code names plus one other key, and
\* events of three other device kinds, one of them with a button number that
\* equals a key code.
AllEvents ==
    {InputEvent("Keyboard", s, k) : s \in EventStates, k \in KeyCodes}
    \cup {InputEvent(d, s, b) : d \in {"JoyButton", "JoyHat", "Mouse"},
                                s \in EventStates, b \in {1, SDLK_ESCAPE}}

\* The events of the frame pipeline specification.
FrameEvents ==
    {InputEvent("Keyboard", "Release", SDLK_ESCAPE),
     InputEvent("Keyboard", "Down", SDLK_a),
     InputEvent("JoyButton", "Down", 1)}

Call(fn, arg, e) == [fn |-> fn, arg |-> arg, e |-> e]

----------------------------------------------------------------------------
(* uint32 arithmetic on <<high, low>> limbs *)

U32(hi, lo) == <<hi, lo>>

\* a + n modulo 2^32, for 0 <= n < Limb
Add32(a, n) ==
    LET lo == a[2] + n
    IN  <<(a[1] + (lo \div Limb)) % Limb, lo % Limb>>

Gt32(a, b) == a[1] > b[1] \/ (a[1] = b[1] /\ a[2] > b[2])

----------------------------------------------------------------------------
(* InputManager::QueueInputEvent(InputEvent&&) and the event queue *)

\* Mutant of Push: the event goes to the head of the queue
PushFront(q, e) == <<e>> \o q

\* _events.push(e)
Push(q, e) == Append(q, e)

\* _events.front()
Front(q) == Head(q)

\* _events.pop()
Pop(q) == Tail(q)

\* Mutant of LoopCondition: the loop stops with one event left
LoopConditionLeavesLast(q) == Len(q) > 1

\* while (!_events.empty())
LoopCondition(q) == q # <<>>

----------------------------------------------------------------------------
(* InputManager::Process(const InputEvent&): the collaborator calls it makes *)

\* Mutant of ConsoleInputFor: SDLK_KP_ENTER is not mapped
ConsoleInputForNoKeypadEnter(button) ==
    CASE button = SDLK_ESCAPE -> "LineClear"
      [] button = SDLK_RETURN -> "LineExecute"
      [] button = SDLK_UP -> "HistoryPrevious"
      [] button = SDLK_DOWN -> "HistoryNext"
      [] button = SDLK_PAGEUP -> "ScrollPrevious"
      [] button = SDLK_PAGEDOWN -> "ScrollNext"
      [] OTHER -> "None"

\* switch (e.Button) of ProcessInGameConsole
ConsoleInputFor(button) ==
    CASE button = SDLK_ESCAPE -> "LineClear"
      [] button = SDLK_RETURN -> "LineExecute"
      [] button = SDLK_KP_ENTER -> "LineExecute"
      [] button = SDLK_UP -> "HistoryPrevious"
      [] button = SDLK_DOWN -> "HistoryNext"
      [] button = SDLK_PAGEUP -> "ScrollPrevious"
      [] button = SDLK_PAGEDOWN -> "ScrollNext"
      [] OTHER -> "None"

ProcessInGameConsole(e) ==
    IF e.DeviceKind = "Keyboard" /\ e.State = "Release"
    THEN LET input == ConsoleInputFor(e.Button)
         IN  IF input # "None" THEN <<Call("console.Input", input, e)>> ELSE <<>>
    ELSE <<>>

\* switch (e.Button) of ProcessChat
ChatInputFor(button) ==
    CASE button = SDLK_ESCAPE -> "Close"
      [] button = SDLK_RETURN -> "Send"
      [] button = SDLK_KP_ENTER -> "Send"
      [] OTHER -> "None"

ProcessChat(e) ==
    IF e.DeviceKind = "Keyboard" /\ e.State = "Release"
    THEN LET input == ChatInputFor(e.Button)
         IN  IF input # "None" THEN <<Call("chat_input", input, e)>> ELSE <<>>
    ELSE <<>>

\* Mutant of ConsoleBranch: the result of the debug-console shortcut is ignored
ConsoleBranchIgnoresHit(e, hit) ==
    <<Call("ProcessEventForSpecificShortcut", IF hit THEN "true" ELSE "false", e),
      Call("ProcessInGameConsole", "", e)>>
    \o ProcessInGameConsole(e)

\* The console branch; the entry into ProcessInGameConsole is recorded before
\* the calls it makes.  hit is what
\* shortcutManager.ProcessEventForSpecificShortcut(e, SHORTCUT_ID_DEBUG_CONSOLE)
\* returns.
ConsoleBranch(e, hit) ==
    <<Call("ProcessEventForSpecificShortcut", IF hit THEN "true" ELSE "false", e)>>
    \o (IF ~hit
        THEN <<Call("ProcessInGameConsole", "", e)>> \o ProcessInGameConsole(e)
        ELSE <<>>)

\* Mutant of TextInputBranch: the key goes to the text input window on Down too
TextInputBranchAnyState(e) ==
    IF e.DeviceKind = "Keyboard"
    THEN IF textInputWindow
         THEN [calls |-> <<Call("window_text_input_key", "w", e)>>, returned |-> TRUE]
         ELSE IF gUsingWidgetTextBox
              THEN [calls |-> <<>>, returned |-> TRUE]
              ELSE [calls |-> <<>>, returned |-> FALSE]
    ELSE [calls |-> <<>>, returned |-> FALSE]

\* The text-input branch (console and chat closed): the calls made, and
\* whether the function returned from inside the branch.
TextInputBranch(e) ==
    IF e.DeviceKind = "Keyboard"
    THEN IF textInputWindow
         THEN [calls |-> IF e.State = "Release"
                         THEN <<Call("window_text_input_key", "w", e)>>
                         ELSE <<>>,
               returned |-> TRUE]
         ELSE IF gUsingWidgetTextBox
              THEN [calls |-> <<>>, returned |-> TRUE]
              ELSE [calls |-> <<>>, returned |-> FALSE]
    ELSE [calls |-> <<>>, returned |-> FALSE]

\* Mutant of KeyboardBranch: the console branch does not return
KeyboardBranchConsoleFallsThrough(e, hit) ==
    IF consoleOpen
    THEN [calls |-> <<Call("ProcessEventForSpecificShortcut",
                           IF hit THEN "true" ELSE "false", e)>>
                    \o (IF ~hit
                        THEN <<Call("ProcessInGameConsole", "", e)>>
                             \o ProcessInGameConsole(e)
                        ELSE <<>>),
          returned |-> FALSE]
    ELSE IF gChatOpen
         THEN [calls |-> <<Call("ProcessChat", "", e)>> \o ProcessChat(e),
               returned |-> TRUE]
         ELSE IF textInputWindow
              THEN [calls |-> IF e.State = "Release"
                              THEN <<Call("window_text_input_key", "w", e)>>
                              ELSE <<>>,
                    returned |-> TRUE]
              ELSE [calls |-> <<>>, returned |-> gUsingWidgetTextBox]

\* The keyboard part of Process(e): calls made and whether it returned early.
\* The entry into ProcessChat is recorded before the calls it makes.
KeyboardBranch(e, hit) ==
    IF consoleOpen
    THEN [calls |-> ConsoleBranch(e, hit), returned |-> TRUE]
    ELSE IF gChatOpen
         THEN [calls |-> <<Call("ProcessChat", "", e)>> \o ProcessChat(e),
               returned |-> TRUE]
         ELSE TextInputBranch(e)

\* Mutant of Process: the device kind is not looked at
ProcessAnyKind(e, hit) ==
    LET k == IF consoleOpen
             THEN [calls |-> <<Call("ProcessEventForSpecificShortcut",
                                    IF hit THEN "true" ELSE "false", e)>>,
                   returned |-> TRUE]
             ELSE IF gChatOpen \/ textInputWindow \/ gUsingWidgetTextBox
                  THEN [calls |-> <<>>, returned |-> TRUE]
                  ELSE [calls |-> <<>>, returned |-> FALSE]
    IN  IF k.returned
        THEN k.calls
        ELSE k.calls \o <<Call("shortcutManager.ProcessEvent", "", e)>>

\* Process(e): the sequence of collaborator calls
Process(e, hit) ==
    LET k == IF e.DeviceKind = "Keyboard"
             THEN KeyboardBranch(e, hit)
             ELSE [calls |-> <<>>, returned |-> FALSE]
    IN  IF k.returned
        THEN k.calls
        ELSE k.calls \o <<Call("shortcutManager.ProcessEvent", "", e)>>

\* A shortcut action may have run: the specific shortcut matched, or the event
\* went to the general shortcut processing.
ShortcutMayRun(cs) ==
    \E i \in 1..Len(cs) :
        \/ cs[i].fn = "shortcutManager.ProcessEvent"
        \/ cs[i].fn = "ProcessEventForSpecificShortcut" /\ cs[i].arg = "true"

----------------------------------------------------------------------------
(* InputManager::CheckJoysticks *)

\* tick > _lastJoystickCheck + CHECK_INTERVAL_MS, in uint32 arithmetic
CheckDue(tick, last) == Gt32(tick, Add32(last, CHECK_INTERVAL_MS))

\* The joysticks pushed by the loop over 0..numJoysticks-1: those whose
\* SDL_JoystickOpen(i) did not return nullptr.
OpenedJoysticks(numJoysticks, opens) ==
    SelectSeq([i \in 1..numJoysticks |-> i - 1], LAMBDA j : j \in opens)

CheckJoysticks(numJoysticks, opens) ==
    LET tick == ticks
    IN  IF CheckDue(tick, _lastJoystickCheck)
        THEN /\ _lastJoystickCheck' = tick
             /\ _joysticks' = OpenedJoysticks(numJoysticks, opens)
             /\ didRescan' = TRUE
             /\ hadRescan' = TRUE
             /\ sinceRescan' = 0
        ELSE /\ didRescan' = FALSE
             /\ UNCHANGED <<_lastJoystickCheck, _joysticks, hadRescan, sinceRescan>>

----------------------------------------------------------------------------
(* InputManager::HandleModifiers *)

PlaceObjectModifier(modifiers, mac) ==
    (IF modifiers \cap KMOD_SHIFT # {} THEN {PLACE_OBJECT_MODIFIER_SHIFT_Z} ELSE {})
    \cup (IF modifiers \cap KMOD_CTRL # {} THEN {PLACE_OBJECT_MODIFIER_COPY_Z} ELSE {})
    \cup (IF modifiers \cap KMOD_ALT # {} THEN {PLACE_OBJECT_MODIFIER_ALT} ELSE {})
    \cup (IF mac /\ modifiers \cap KMOD_GUI # {} THEN {PLACE_OBJECT_MODIFIER_GUI} ELSE {})

\* Mutant of HandleModifiers: any modifier flag enables the virtual floor
HandleModifiersAnyFlag ==
    LET modifiers == modState
        place == PlaceObjectModifier(modifiers, MACOSX)
    IN  /\ sampledMods' = modifiers
        /\ prevPlaceModifier' = gInputPlaceObjectModifier
        /\ gInputPlaceObjectModifier' = place
        /\ IF virtual_floor_style # "Off"
           THEN IF place # {}
                THEN virtualFloorEnabled' = TRUE /\ modCalls' = <<"virtual_floor_enable">>
                ELSE virtualFloorEnabled' = FALSE /\ modCalls' = <<"virtual_floor_disable">>
           ELSE modCalls' = <<>> /\ UNCHANGED virtualFloorEnabled

HandleModifiers ==
    LET modifiers == modState
        place == PlaceObjectModifier(modifiers, MACOSX)
    IN  /\ sampledMods' = modifiers
        /\ prevPlaceModifier' = gInputPlaceObjectModifier
        /\ gInputPlaceObjectModifier' = place
        /\ IF virtual_floor_style # "Off"
           THEN IF place \cap {PLACE_OBJECT_MODIFIER_COPY_Z, PLACE_OBJECT_MODIFIER_SHIFT_Z} # {}
                THEN virtualFloorEnabled' = TRUE /\ modCalls' = <<"virtual_floor_enable">>
                ELSE virtualFloorEnabled' = FALSE /\ modCalls' = <<"virtual_floor_disable">>
           ELSE modCalls' = <<>> /\ UNCHANGED virtualFloorEnabled

----------------------------------------------------------------------------
(* InputManager::HandleViewScrolling *)

ViewCall(fn, arg) == [fn |-> fn, arg |-> arg]

\* if (mainWindow != nullptr && _viewScroll.x != 0 || _viewScroll.y != 0)
UnfollowCondition(w, scroll) == (w # "nullptr" /\ scroll.x # 0) \/ scroll.y # 0

\* Mutant of EdgeScrollCalls: the place-object modifier is not looked at
EdgeScrollCallsIgnoresModifier ==
    IF edge_scrolling
    THEN IF inputState # "Normal"
         THEN <<>>
         ELSE <<ViewCall("GameHandleEdgeScroll", "")>>
    ELSE <<>>

\* The mouse edge scrolling part
EdgeScrollCalls ==
    IF edge_scrolling
    THEN IF inputState # "Normal"
         THEN <<>>
         ELSE IF gInputPlaceObjectModifier
                   \cap {PLACE_OBJECT_MODIFIER_SHIFT_Z, PLACE_OBJECT_MODIFIER_COPY_Z} # {}
              THEN <<>>
              ELSE <<ViewCall("GameHandleEdgeScroll", "")>>
    ELSE <<>>

\* The calls of a HandleViewScrolling that runs to its end
ViewScrollCalls ==
    IF titleDemo
    THEN <<>>
    ELSE IF consoleOpen
         THEN <<>>
         ELSE (IF UnfollowCondition(mainWindow, _viewScroll)
               THEN <<ViewCall("window_unfollow_sprite", mainWindow)>>
               ELSE <<>>)
              \o <<ViewCall("InputScrollViewport", "_viewScroll")>>
              \o EdgeScrollCalls

\* window_unfollow_sprite(nullptr) writes through a null pointer: the build
\* either survives it or dies there.
NullUnfollow ==
    /\ ~titleDemo
    /\ ~consoleOpen
    /\ UnfollowCondition(mainWindow, _viewScroll)
    /\ mainWindow = "nullptr"

HandleViewScrolling(survives) ==
    IF NullUnfollow /\ ~survives
    THEN /\ viewCalls' = <<ViewCall("window_unfollow_sprite", mainWindow)>>
         /\ crashed' = TRUE
    ELSE /\ viewCalls' = ViewScrollCalls
         /\ UNCHANGED crashed

----------------------------------------------------------------------------
(* InputManager::Process(): the frame handler, one step per call it makes *)

\* Mutant of ProcessSteps: the view scrolls before the events are processed
ProcessStepsScrollFirst ==
    <<"CheckJoysticks", "HandleModifiers", "HandleViewScrolling", "ProcessEvents">>

ProcessSteps ==
    <<"CheckJoysticks", "HandleModifiers", "ProcessEvents", "HandleViewScrolling">>

AtStep(name) ==
    /\ ~crashed
    /\ pc \in 1..Len(ProcessSteps)
    /\ ProcessSteps[pc] = name

\* The next call of Process(), or its return
StepDone == pc' = IF pc = Len(ProcessSteps) THEN 0 ELSE pc + 1

\* The UI loop calls Process() once per frame
BeginProcess ==
    /\ ~crashed
    /\ pc = 0
    /\ pc' = 1
    /\ joyDone' = FALSE
    /\ modsDone' = FALSE
    /\ viewDone' = FALSE
    /\ queuedAtBegin' = Len(queuedLog)
    /\ queuedInFrame' = FALSE
    /\ UNCHANGED <<crashed, _events, queuedLog, processedLog, sdlLog, uiVars, calls,
                   clockVars, ride,
                   joyVars, modVars, modEnv, viewEnv, viewCalls>>

StepCheckJoysticks ==
    /\ AtStep("CheckJoysticks")
    /\ \E numJoysticks \in 0..MaxJoysticks :
         \E opens \in SUBSET (0..(numJoysticks - 1)) :
             CheckJoysticks(numJoysticks, opens)
    /\ joyDone' = TRUE
    /\ StepDone
    /\ UNCHANGED <<crashed, queueVars, uiVars, calls, clockVars, ride, modVars, modEnv,
                   viewEnv, viewCalls, modsDone, viewDone>>

StepHandleModifiers ==
    /\ AtStep("HandleModifiers")
    /\ HandleModifiers
    /\ modsDone' = TRUE
    /\ StepDone
    /\ UNCHANGED <<crashed, queueVars, uiVars, calls, clockVars, ride, joyVars, modEnv,
                   viewEnv, viewCalls, joyDone, viewDone>>

\* One iteration of the loop of ProcessEvents: front, Process(e), pop.  hit is
\* the answer of ProcessEventForSpecificShortcut where it is asked; toggled
\* says whether a shortcut action that ran opened or closed the console.
Dispatch(hit, toggled) ==
    LET e == Front(_events)
        made == Process(e, hit)
    IN  /\ calls' = made
        /\ processedLog' = Append(processedLog, e)
        /\ _events' = Pop(_events)
        /\ toggled => ShortcutMayRun(made)
        /\ consoleOpen' = IF toggled THEN ~consoleOpen ELSE consoleOpen
        /\ UNCHANGED <<queuedLog, queuedAtBegin, queuedInFrame, sdlLog, gChatOpen,
                       textInputWindow, gUsingWidgetTextBox>>

StepProcessEvents ==
    /\ AtStep("ProcessEvents")
    /\ IF LoopCondition(_events)
       THEN /\ \E hit \in BOOLEAN, toggled \in BOOLEAN : Dispatch(hit, toggled)
            /\ UNCHANGED pc
       ELSE /\ StepDone
            /\ UNCHANGED <<queueVars, uiVars, calls>>
    /\ UNCHANGED <<crashed, clockVars, ride, joyVars, modVars, modEnv, viewEnv, viewCalls,
                   frameVars>>

StepHandleViewScrolling ==
    /\ AtStep("HandleViewScrolling")
    /\ \E survives \in BOOLEAN : HandleViewScrolling(survives)
    /\ viewDone' = TRUE
    /\ IF crashed' THEN UNCHANGED pc ELSE StepDone
    /\ UNCHANGED <<queueVars, uiVars, calls, clockVars, ride, joyVars, modVars, modEnv,
                   viewEnv, joyDone, modsDone>>

Steps ==
    \/ BeginProcess
    \/ StepCheckJoysticks
    \/ StepHandleModifiers
    \/ StepProcessEvents
    \/ StepHandleViewScrolling

----------------------------------------------------------------------------
(* What happens around the frame handler *)

\* Where QueueInputEvent can be called from on the one UI thread: between
\* frames, or from inside a collaborator that a Process(e) of the loop calls.
MayQueue ==
    IF pc = 0 THEN TRUE ELSE AtStep("ProcessEvents") /\ LoopCondition(_events)

\* InputManager::QueueInputEvent(InputEvent&& e)
QueueInputEvent(e, max) ==
    /\ ~crashed
    /\ MayQueue
    /\ Len(queuedLog) < max
    /\ _events' = Push(_events, e)
    /\ queuedLog' = Append(queuedLog, e)
    /\ queuedInFrame' = (queuedInFrame \/ pc # 0)
    /\ UNCHANGED <<pc, crashed, processedLog, queuedAtBegin, sdlLog, uiVars, calls,
                   clockVars, ride,
                   joyVars, modVars, modEnv, viewEnv, viewCalls, frameVars>>

\* A raw SDL event: its type and, for the joystick types the switch names,
\* the member the code reads (jhat.value or jbutton.button).
SdlEvent(type, value) == [type |-> type, value |-> value]

\* Mutant of SdlToInputEvents: a button release is translated as Down
SdlToInputEventsUpAsDown(e, modifiers) ==
    CASE e.type = "SDL_JOYHATMOTION" ->
            IF e.value # SDL_HAT_CENTERED
            THEN <<[DeviceKind |-> "JoyHat", Modifiers |-> modifiers,
                    Button |-> e.value, State |-> "Down"]>>
            ELSE <<>>
      [] e.type = "SDL_JOYBUTTONDOWN" ->
            <<[DeviceKind |-> "JoyButton", Modifiers |-> modifiers,
               Button |-> e.value, State |-> "Down"]>>
      [] e.type = "SDL_JOYBUTTONUP" ->
            <<[DeviceKind |-> "JoyButton", Modifiers |-> modifiers,
               Button |-> e.value, State |-> "Down"]>>
      [] OTHER -> <<>>

\* The switch of QueueInputEvent(const SDL_Event& e): the InputEvents it
\* hands to QueueInputEvent(InputEvent&&), in order; modifiers is what
\* SDL_GetModState() returns.
SdlToInputEvents(e, modifiers) ==
    CASE e.type = "SDL_JOYHATMOTION" ->
            IF e.value # SDL_HAT_CENTERED
            THEN <<[DeviceKind |-> "JoyHat", Modifiers |-> modifiers,
                    Button |-> e.value, State |-> "Down"]>>
            ELSE <<>>
      [] e.type = "SDL_JOYBUTTONDOWN" ->
            <<[DeviceKind |-> "JoyButton", Modifiers |-> modifiers,
               Button |-> e.value, State |-> "Down"]>>
      [] e.type = "SDL_JOYBUTTONUP" ->
            <<[DeviceKind |-> "JoyButton", Modifiers |-> modifiers,
               Button |-> e.value, State |-> "Release"]>>
      [] OTHER -> <<>>

RECURSIVE PushAll(_, _)
PushAll(q, es) == IF es = <<>> THEN q ELSE PushAll(Push(q, Head(es)), Tail(es))

\* InputManager::QueueInputEvent(const SDL_Event& e)
QueueSdlEvent(e, max) ==
    LET made == SdlToInputEvents(e, modState)
    IN  /\ ~crashed
        /\ MayQueue
        /\ Len(sdlLog) < max
        /\ sdlLog' = Append(sdlLog, e)
        /\ _events' = PushAll(_events, made)
        /\ queuedLog' = queuedLog \o made
        /\ queuedInFrame' = (queuedInFrame \/ (pc # 0 /\ made # <<>>))
        /\ UNCHANGED <<pc, crashed, processedLog, queuedAtBegin, uiVars, calls,
                       clockVars, ride,
                       joyVars, modVars, modEnv, viewEnv, viewCalls, frameVars>>

\* The keyboard modifier state SDL reports changes between frames
SetModState(m) ==
    /\ ~crashed
    /\ pc = 0
    /\ modState # m
    /\ modState' = m
    /\ UNCHANGED <<pc, crashed, queueVars, uiVars, calls, clockVars, ride, joyVars, modVars,
                   virtual_floor_style, MACOSX, viewEnv, viewCalls, frameVars>>

\* The player changes the virtual floor style in the options between frames
SetVirtualFloorStyle(style) ==
    /\ ~crashed
    /\ pc = 0
    /\ virtual_floor_style # style
    /\ virtual_floor_style' = style
    /\ UNCHANGED <<pc, crashed, queueVars, uiVars, calls, clockVars, ride, joyVars, modVars,
                   modState, MACOSX, viewEnv, viewCalls, frameVars>>

\* Console, chat and text input open and close between frames
UiChange ==
    /\ ~crashed
    /\ pc = 0
    /\ \E c \in BOOLEAN, ch \in BOOLEAN, tw \in BOOLEAN, wt \in BOOLEAN :
         /\ <<c, ch, tw, wt>> # uiVars
         /\ consoleOpen' = c
         /\ gChatOpen' = ch
         /\ textInputWindow' = tw
         /\ gUsingWidgetTextBox' = wt
    /\ UNCHANGED <<pc, crashed, queueVars, calls, clockVars, ride, joyVars, modVars, modEnv,
                   viewEnv, viewCalls, frameVars>>

\* SDL's millisecond clock advances between frames
Tick(d) ==
    /\ ~crashed
    /\ pc = 0
    /\ tickCount < MaxTicks
    /\ tickCount' = tickCount + 1
    /\ ticks' = Add32(ticks, d)
    /\ sinceRescan' = IF sinceRescan + d > CHECK_INTERVAL_MS
                      THEN CHECK_INTERVAL_MS + 1
                      ELSE sinceRescan + d
    /\ UNCHANGED <<pc, crashed, queueVars, uiVars, calls, ride, _lastJoystickCheck,
                   _joysticks,
                   didRescan, hadRescan, modVars, modEnv, viewEnv, viewCalls, frameVars>>

----------------------------------------------------------------------------
\* No ride type descriptor has been looked up yet
NoLookup ==
    [start |-> "RIDE_TYPE_NULL", type |-> "RIDE_TYPE_NULL", field |-> "", hops |-> 0,
     ended |-> FALSE]

(* Initial states: InputManager as constructed, in an environment drawn from
   the given sets.  A start tick other than 0 is a program that has just
   rescanned at that tick. *)

InitWith(env) ==
    /\ pc = 0
    /\ crashed = FALSE
    /\ _events = <<>>
    /\ queuedLog = <<>>
    /\ processedLog = <<>>
    /\ queuedAtBegin = 0
    /\ queuedInFrame = FALSE
    /\ sdlLog = <<>>
    /\ consoleOpen \in env.Consoles
    /\ gChatOpen \in env.Chats
    /\ textInputWindow \in env.TextWins
    /\ gUsingWidgetTextBox \in env.Widgets
    /\ calls = <<>>
    /\ ticks \in env.Starts
    /\ tickCount = 0
    /\ _lastJoystickCheck = ticks
    /\ _joysticks = <<>>
    /\ didRescan = FALSE
    /\ hadRescan = (ticks # U32(0, 0))
    /\ sinceRescan = 0
    /\ modState \in env.Mods
    /\ gInputPlaceObjectModifier = {}
    /\ virtual_floor_style \in env.Styles
    /\ virtualFloorEnabled = FALSE
    /\ modCalls = <<>>
    /\ prevPlaceModifier = {}
    /\ MACOSX \in env.Macs
    /\ titleDemo \in env.Titles
    /\ mainWindow \in env.MainWins
    /\ _viewScroll \in env.Scrolls
    /\ edge_scrolling \in env.Edges
    /\ inputState \in env.InputStates
    /\ viewCalls = <<>>
    /\ joyDone = FALSE
    /\ modsDone = FALSE
    /\ sampledMods = {}
    /\ viewDone = FALSE
    /\ ride = NoLookup

NoScroll == [x |-> 0, y |-> 0]

\* The environment of a freshly started game: nothing open, no key held, the
\* main window present, the view at rest.
QuietEnv ==
    [Consoles |-> {FALSE}, Chats |-> {FALSE}, TextWins |-> {FALSE}, Widgets |-> {FALSE},
     Starts |-> {U32(0, 0)}, Mods |-> {{}}, Styles |-> {"Off"}, Macs |-> {FALSE},
     Titles |-> {FALSE}, MainWins |-> {"main"}, Scrolls |-> {NoScroll},
     Edges |-> {TRUE}, InputStates |-> {"Normal"}]

ScrollCoords == {[x |-> a, y |-> b] : a \in {-1, 0, 1}, b \in {-1, 0, 1}}

FrameMods == {{}, {"LSHIFT"}}

\* The frame pipeline: events are queued and frames run; a shortcut may open
\* or close the console.
Init == InitWith([QuietEnv EXCEPT !.Consoles = BOOLEAN])

Next ==
    \/ \E e \in FrameEvents : QueueInputEvent(e, MaxQueued)
    \/ \E m \in FrameMods : SetModState(m)
    \/ Steps

Spec == Init /\ [][Next]_vars

\* Event routing: every event of AllEvents in every state of console, chat,
\* text input window and widget text box.
InitRoute ==
    InitWith([QuietEnv EXCEPT !.Consoles = BOOLEAN, !.Chats = BOOLEAN,
                              !.TextWins = BOOLEAN, !.Widgets = BOOLEAN])

NextRoute ==
    \/ \E e \in AllEvents : QueueInputEvent(e, MaxRouted)
    \/ UiChange
    \/ Steps

SpecRoute == InitRoute /\ [][NextRoute]_vars

\* View scrolling: every state of title screen, console, main window, scroll
\* vector, edge scrolling, input state and held modifiers.
InitView ==
    InitWith([QuietEnv EXCEPT !.Consoles = BOOLEAN,
                              !.Mods = {{}, {"LSHIFT"}, {"RCTRL"}, {"LALT"}},
                              !.Titles = BOOLEAN, !.MainWins = {"nullptr", "main"},
                              !.Scrolls = ScrollCoords, !.Edges = BOOLEAN,
                              !.InputStates = {"Normal", "Resizing"}])

NextView == Steps

SpecView == InitView /\ [][NextView]_vars

\* The joystick rescan: the clock runs from program start and from shortly
\* before the uint32 wrap-around.
TickStarts == {U32(0, 0), U32(65535, 59536)}

TickDeltas == {16, 2500, 5001}

InitJoy == InitWith([QuietEnv EXCEPT !.Starts = TickStarts])

NextJoy ==
    \/ \E d \in TickDeltas : Tick(d)
    \/ Steps

SpecJoy == InitJoy /\ [][NextJoy]_vars

----------------------------------------------------------------------------
(* Properties of the frame pipeline (Spec) *)

\* C1: events are dispatched in FIFO order, each exactly once: the events
\* handed to Process(e) so far, followed by the events still in the queue,
\* are exactly the events queued so far, in the order they were queued.
C1_FifoExactlyOnce == queuedLog = processedLog \o _events

\* Two different events were dispatched while a third, queued during the
\* frame, still waits.
C1_Witness ==
    /\ Len(processedLog) = 2
    /\ processedLog[1] # processedLog[2]
    /\ Len(_events) = 1
    /\ queuedInFrame

\* C2: when Process() returns and no event was queued while the frame ran,
\* the queue is empty and every event queued before the frame began has been
\* dispatched.
C2_DrainedPerFrame ==
    [][(pc # 0 /\ pc' = 0 /\ ~queuedInFrame')
         => /\ _events' = <<>>
            /\ Len(processedLog') >= queuedAtBegin
            /\ SubSeq(processedLog', 1, queuedAtBegin)
                 = SubSeq(queuedLog', 1, queuedAtBegin)]_vars

\* A frame has returned after draining two events that were queued before it.
C2_Witness ==
    /\ pc = 0
    /\ viewDone
    /\ ~queuedInFrame
    /\ queuedAtBegin = 2
    /\ Len(processedLog) = 2
    /\ _events = <<>>

\* C7: within a frame the joystick check and HandleModifiers are complete
\* before any event is dispatched, and HandleViewScrolling runs only once the
\* queue is empty and every queued event has been dispatched; it then sees
\* the modifier flags computed from the state sampled in this frame and the
\* console as the frame's events left it.
C7_FrameOrder ==
    [][/\ (processedLog' # processedLog)
            => (joyDone /\ modsDone /\ ~viewDone)
       /\ (viewDone' /\ ~viewDone)
            => /\ joyDone /\ modsDone
               /\ _events = <<>>
               /\ processedLog = queuedLog
               /\ sampledMods = modState
               /\ gInputPlaceObjectModifier = PlaceObjectModifier(sampledMods, MACOSX)
               /\ consoleOpen => viewCalls' = <<>>]_vars

\* A frame with Shift held has run HandleViewScrolling after dispatching an
\* event that was queued during the frame, with the console open once the
\* events were done.
C7_Witness ==
    /\ viewDone
    /\ queuedInFrame
    /\ queuedAtBegin = 1
    /\ Len(processedLog) = 2
    /\ _events = <<>>
    /\ sampledMods = {"LSHIFT"}
    /\ gInputPlaceObjectModifier = {PLACE_OBJECT_MODIFIER_SHIFT_Z}
    /\ consoleOpen
    /\ viewCalls = <<>>

----------------------------------------------------------------------------
(* Properties of HandleViewScrolling (SpecView) *)

\* C3: window_unfollow_sprite is invoked only when the main window returned
\* by window_get_main is non-null.
C3_UnfollowOnlyNonNull ==
    \A i \in 1..Len(viewCalls) :
        viewCalls[i].fn = "window_unfollow_sprite" => viewCalls[i].arg # "nullptr"

----------------------------------------------------------------------------
(* Properties of event routing (SpecRoute) *)

\* The calls of cs to the function fn
CallsTo(cs, fn) == {i \in 1..Len(cs) : cs[i].fn = fn}

\* The calls of cs that consume the event: a shortcut handled by the shortcut
\* manager, console.Input, chat_input, window_text_input_key.
Consuming(cs) ==
    {i \in 1..Len(cs) :
        \/ cs[i].fn \in {"shortcutManager.ProcessEvent", "console.Input", "chat_input",
                         "window_text_input_key"}
        \/ cs[i].fn = "ProcessEventForSpecificShortcut" /\ cs[i].arg = "true"}

\* A loop iteration of ProcessEvents happens in this step
Dispatching == processedLog' # processedLog

\* C4: one Process(e) call lets at most one collaborator consume the event,
\* and when the debug-console shortcut handled it, ProcessInGameConsole is
\* not entered.
C4_AtMostOneConsumer ==
    /\ Cardinality(Consuming(calls)) <= 1
    /\ (\E i \in 1..Len(calls) :
            calls[i].fn = "ProcessEventForSpecificShortcut" /\ calls[i].arg = "true")
         => CallsTo(calls, "ProcessInGameConsole") = {}

\* The debug-console shortcut handled the release of Escape, a key the
\* console maps.
C4_Witness ==
    calls = <<Call("ProcessEventForSpecificShortcut", "true",
                   InputEvent("Keyboard", "Release", SDLK_ESCAPE))>>

\* C5: a keyboard event processed with console and chat closed: with a text
\* input window it goes to window_text_input_key if and only if it is a
\* Release and never to the shortcut manager; without one but with the widget
\* text box in use nothing is called; otherwise it goes to
\* shortcutManager.ProcessEvent.
C5_TextInputEarlyReturn ==
    [][LET e == Front(_events)
       IN  (Dispatching /\ e.DeviceKind = "Keyboard" /\ ~consoleOpen /\ ~gChatOpen)
             => calls' = IF textInputWindow
                         THEN IF e.State = "Release"
                              THEN <<Call("window_text_input_key", "w", e)>>
                              ELSE <<>>
                         ELSE IF gUsingWidgetTextBox
                              THEN <<>>
                              ELSE <<Call("shortcutManager.ProcessEvent", "", e)>>]_vars

\* A key press was swallowed because a text input window exists.
C5_Witness ==
    /\ processedLog = <<InputEvent("Keyboard", "Down", SDLK_a)>>
    /\ textInputWindow /\ ~consoleOpen /\ ~gChatOpen
    /\ calls = <<>>

\* The key-to-action tables of the claim
C6_ConsoleAction(button) ==
    IF button = SDLK_ESCAPE THEN "LineClear"
    ELSE IF button \in {SDLK_RETURN, SDLK_KP_ENTER} THEN "LineExecute"
    ELSE IF button = SDLK_UP THEN "HistoryPrevious"
    ELSE IF button = SDLK_DOWN THEN "HistoryNext"
    ELSE IF button = SDLK_PAGEUP THEN "ScrollPrevious"
    ELSE IF button = SDLK_PAGEDOWN THEN "ScrollNext"
    ELSE "None"

C6_ChatAction(button) ==
    IF button = SDLK_ESCAPE THEN "Close"
    ELSE IF button \in {SDLK_RETURN, SDLK_KP_ENTER} THEN "Send"
    ELSE "None"

\* What follows the entry of a handler in the call log
C6_After(cs, i) == SubSeq(cs, i + 1, Len(cs))

\* C6: ProcessInGameConsole calls console.Input exactly for a keyboard
\* Release of a key of the console table, with the action of the table, and
\* ProcessChat calls chat_input exactly for a keyboard Release of a key of
\* the chat table, with the action of the table; a Down event and any other
\* key cause no call.
C6_KeyMapping ==
    \A i \in 1..Len(calls) :
        LET e == calls[i].e
            released == e.DeviceKind = "Keyboard" /\ e.State = "Release"
        IN  /\ calls[i].fn = "ProcessInGameConsole"
                 => C6_After(calls, i)
                      = IF released /\ C6_ConsoleAction(e.Button) # "None"
                        THEN <<Call("console.Input", C6_ConsoleAction(e.Button), e)>>
                        ELSE <<>>
            /\ calls[i].fn = "ProcessChat"
                 => C6_After(calls, i)
                      = IF released /\ C6_ChatAction(e.Button) # "None"
                        THEN <<Call("chat_input", C6_ChatAction(e.Button), e)>>
                        ELSE <<>>

\* The console executed a line on the release of the keypad Enter key.
C6_Witness ==
    \E i \in 1..Len(calls) :
        /\ calls[i].fn = "console.Input"
        /\ calls[i].arg = "LineExecute"
        /\ calls[i].e = InputEvent("Keyboard", "Release", SDLK_KP_ENTER)

\* C8: while the console is open a keyboard event reaches neither chat_input
\* nor window_text_input_key nor shortcutManager.ProcessEvent; while the
\* console is closed and chat is open it reaches neither
\* window_text_input_key nor any shortcut processing.
C8_RoutingPrecedence ==
    [][(Dispatching /\ Front(_events).DeviceKind = "Keyboard")
         => /\ consoleOpen
                 => /\ CallsTo(calls', "chat_input") = {}
                    /\ CallsTo(calls', "ProcessChat") = {}
                    /\ CallsTo(calls', "window_text_input_key") = {}
                    /\ CallsTo(calls', "shortcutManager.ProcessEvent") = {}
            /\ (~consoleOpen /\ gChatOpen)
                 => /\ CallsTo(calls', "window_text_input_key") = {}
                    /\ CallsTo(calls', "shortcutManager.ProcessEvent") = {}
                    /\ CallsTo(calls', "ProcessEventForSpecificShortcut") = {}]_vars

\* With console, chat and a text input window all open, the release of
\* Return went to the console only.
C8_Witness ==
    /\ consoleOpen /\ gChatOpen /\ textInputWindow
    /\ Len(calls) = 3
    /\ calls[3] = Call("console.Input", "LineExecute",
                       InputEvent("Keyboard", "Release", SDLK_RETURN))

\* C9: an event of a device kind other than Keyboard is forwarded to
\* shortcutManager.ProcessEvent exactly once and causes no other call,
\* whatever the state of console, chat, text input window and widget text box.
C9_NonKeyboardForwarded ==
    processedLog # <<>>
      => LET e == processedLog[Len(processedLog)]
         IN  e.DeviceKind # "Keyboard"
               => calls = <<Call("shortcutManager.ProcessEvent", "", e)>>

\* A joystick hat event was forwarded although chat, a text input window and
\* the widget text box were all active.
C9_Witness ==
    /\ gChatOpen /\ textInputWindow /\ gUsingWidgetTextBox
    /\ calls = <<Call("shortcutManager.ProcessEvent", "",
                      InputEvent("JoyHat", "Down", SDLK_ESCAPE))>>

----------------------------------------------------------------------------
(* Properties of CheckJoysticks (SpecJoy) *)

\* C10: two consecutive rescans are more than CHECK_INTERVAL_MS ticks apart,
\* and a call that does not rescan leaves _joysticks and _lastJoystickCheck
\* unchanged.
C10_RescanSpacing ==
    [][(joyDone' /\ ~joyDone)
         => IF didRescan'
            THEN hadRescan => sinceRescan > CHECK_INTERVAL_MS
            ELSE UNCHANGED <<_joysticks, _lastJoystickCheck>>]_vars

----------------------------------------------------------------------------
(* Mouse edge scrolling (SpecEdge): frames run in every state of title
   screen, console, main window, edge scrolling and input state, while the
   held modifier keys change between frames. *)

EdgeMods == {{}, {"LSHIFT"}, {"RCTRL"}, {"LALT"}}

InitEdge ==
    InitWith([QuietEnv EXCEPT !.Consoles = BOOLEAN, !.Mods = EdgeMods,
                              !.Titles = BOOLEAN, !.MainWins = {"nullptr", "main"},
                              !.Scrolls = {NoScroll, [x |-> 0, y |-> 1]},
                              !.Edges = BOOLEAN,
                              !.InputStates = {"Normal", "Resizing"}])

NextEdge ==
    \/ \E m \in EdgeMods : SetModState(m)
    \/ Steps

SpecEdge == InitEdge /\ [][NextEdge]_vars

\* HandleViewScrolling runs in this step
ViewScrolling == viewDone' /\ ~viewDone

\* Everything that gates mouse edge scrolling lets it through
C11_EdgeScrollAllowed ==
    /\ ~titleDemo
    /\ ~consoleOpen
    /\ edge_scrolling
    /\ inputState = "Normal"
    /\ modState \cap (KMOD_SHIFT \cup KMOD_CTRL) = {}

\* C11: GameHandleEdgeScroll is invoked only if the title-demo flag is clear,
\* the console is closed, edge scrolling is enabled, the input state is Normal
\* and neither Shift nor Ctrl is held in the modifier state HandleModifiers
\* sampled in this frame; modifiers of an earlier frame do not suppress it
\* (it is invoked whenever all of that holds and the frame gets that far);
\* and with the title-demo flag set or the console open HandleViewScrolling
\* calls nothing at all.
C11_EdgeScrollGated ==
    [][ViewScrolling
         => /\ modsDone /\ sampledMods = modState
            /\ CallsTo(viewCalls', "GameHandleEdgeScroll") # {}
                 => C11_EdgeScrollAllowed
            /\ (C11_EdgeScrollAllowed /\ ~crashed')
                 => CallsTo(viewCalls', "GameHandleEdgeScroll") # {}
            /\ (titleDemo \/ consoleOpen) => viewCalls' = <<>>]_vars

\* The edge scrolled in a frame without Shift or Ctrl although the frame
\* before had computed a modifier with Shift or Ctrl in it.
C11_Witness ==
    /\ viewDone
    /\ CallsTo(viewCalls, "GameHandleEdgeScroll") # {}
    /\ sampledMods \in {{}, {"LALT"}}
    /\ prevPlaceModifier \cap {PLACE_OBJECT_MODIFIER_SHIFT_Z,
                                PLACE_OBJECT_MODIFIER_COPY_Z} # {}

----------------------------------------------------------------------------
(* The virtual floor (SpecMods): frames run on both kinds of build while the
   held modifier keys and the virtual floor style change between frames. *)

ModStates == SUBSET {"LSHIFT", "RCTRL", "LALT", "RGUI"}

VirtualFloorStyles == {"Off", "Clear", "Glassy"}

InitMods ==
    InitWith([QuietEnv EXCEPT !.Mods = ModStates, !.Styles = VirtualFloorStyles,
                              !.Macs = BOOLEAN])

NextMods ==
    \/ \E m \in ModStates : SetModState(m)
    \/ \E style \in VirtualFloorStyles : SetVirtualFloorStyle(style)
    \/ Steps

SpecMods == InitMods /\ [][NextMods]_vars

\* C12: with a virtual floor style other than Off, HandleModifiers leaves the
\* virtual floor enabled if Shift or Ctrl is held and disabled otherwise,
\* whatever Alt and GUI are; with the style Off it calls neither
\* virtual_floor_enable nor virtual_floor_disable and the virtual floor stays
\* as it was.
C12_VirtualFloorTracksModifiers ==
    [][(modsDone' /\ ~modsDone)
         => IF virtual_floor_style # "Off"
            THEN IF modState \cap (KMOD_SHIFT \cup KMOD_CTRL) # {}
                 THEN virtualFloorEnabled' /\ modCalls' = <<"virtual_floor_enable">>
                 ELSE ~virtualFloorEnabled' /\ modCalls' = <<"virtual_floor_disable">>
            ELSE modCalls' = <<>> /\ virtualFloorEnabled' = virtualFloorEnabled]_vars

\* On a macOS build, with Alt and GUI held and neither Shift nor Ctrl, the
\* virtual floor that Shift or Ctrl had enabled a frame earlier is disabled.
C12_Witness ==
    /\ modsDone
    /\ MACOSX
    /\ virtual_floor_style # "Off"
    /\ sampledMods = {"LALT", "RGUI"}
    /\ gInputPlaceObjectModifier = {PLACE_OBJECT_MODIFIER_ALT, PLACE_OBJECT_MODIFIER_GUI}
    /\ prevPlaceModifier \cap {PLACE_OBJECT_MODIFIER_SHIFT_Z,
                                PLACE_OBJECT_MODIFIER_COPY_Z} # {}
    /\ ~virtualFloorEnabled
    /\ modCalls = <<"virtual_floor_disable">>

----------------------------------------------------------------------------
(* Translation of raw SDL events (SpecSdl): SDL events of the three joystick
   types the switch names and of two other types arrive between and during
   frames, under changing modifier keys. *)

SdlEvents ==
    {SdlEvent("SDL_JOYHATMOTION", v) : v \in {SDL_HAT_CENTERED, 1}}
    \cup {SdlEvent(t, 0) : t \in {"SDL_JOYBUTTONDOWN", "SDL_JOYBUTTONUP",
                                  "SDL_KEYDOWN", "SDL_JOYAXISMOTION"}}

SdlMods == {{}, {"LSHIFT"}}

InitSdl == InitWith([QuietEnv EXCEPT !.Mods = SdlMods])

NextSdl ==
    \/ \E e \in SdlEvents : QueueSdlEvent(e, MaxSdl)
    \/ \E m \in SdlMods : SetModState(m)
    \/ Steps

SpecSdl == InitSdl /\ [][NextSdl]_vars

C13_Enqueues(kind, state) ==
    /\ Len(_events') = Len(_events) + 1
    /\ SubSeq(_events', 1, Len(_events)) = _events
    /\ _events'[Len(_events')].DeviceKind = kind
    /\ _events'[Len(_events')].State = state

\* C13: QueueInputEvent(SDL_Event) enqueues exactly one JoyButton/Down event
\* for SDL_JOYBUTTONDOWN, exactly one JoyButton/Release event for
\* SDL_JOYBUTTONUP, exactly one JoyHat/Down event for a non-centred
\* SDL_JOYHATMOTION, and leaves the queue unchanged for a centred hat motion
\* and for every other SDL event type; no JoyHat event with state Release is
\* ever enqueued.
C13_SdlTranslation ==
    [][/\ sdlLog' # sdlLog
          => LET e == sdlLog'[Len(sdlLog')]
             IN  CASE e.type = "SDL_JOYBUTTONDOWN" -> C13_Enqueues("JoyButton", "Down")
                   [] e.type = "SDL_JOYBUTTONUP" -> C13_Enqueues("JoyButton", "Release")
                   [] e.type = "SDL_JOYHATMOTION" /\ e.value # SDL_HAT_CENTERED ->
                          C13_Enqueues("JoyHat", "Down")
                   [] OTHER -> _events' = _events
       /\ \A i \in 1..Len(queuedLog') :
             ~(queuedLog'[i].DeviceKind = "JoyHat" /\ queuedLog'[i].State = "Release")]_vars

\* A centred hat motion, a key press and a button release have been handed
\* over, and only the button release is in the queue.
C13_Witness ==
    /\ \E i \in 1..Len(sdlLog) : sdlLog[i] = SdlEvent("SDL_JOYHATMOTION", SDL_HAT_CENTERED)
    /\ \E i \in 1..Len(sdlLog) : sdlLog[i].type = "SDL_KEYDOWN"
    /\ \E i \in 1..Len(sdlLog) : sdlLog[i].type = "SDL_JOYBUTTONUP"
    /\ Len(_events) = 1
    /\ _events[1].DeviceKind = "JoyButton" /\ _events[1].State = "Release"
    /\ queuedLog = _events

----------------------------------------------------------------------------
(* The ride type descriptors of MultiDimensionRollerCoaster.h.  A bitmask is
   the set of the bits or-ed into it, a brace initialiser is a tuple, and an
   enumerator, a function or a string id is its name. *)

MultiDimensionRollerCoasterRTD ==
    [AlternateType |-> "RIDE_TYPE_MULTI_DIMENSION_ROLLER_COASTER_ALT",
     Category |-> "RIDE_CATEGORY_ROLLERCOASTER",
     EnabledTrackPieces |->
        {"TRACK_STRAIGHT", "TRACK_STATION_END", "TRACK_LIFT_HILL",
         "TRACK_FLAT_ROLL_BANKING", "TRACK_SLOPE", "TRACK_SLOPE_STEEP", "TRACK_S_BEND",
         "TRACK_CURVE_SMALL", "TRACK_CURVE", "TRACK_HELIX_SMALL", "TRACK_BRAKES",
         "TRACK_ON_RIDE_PHOTO", "TRACK_SLOPE_VERTICAL", "TRACK_BLOCK_BRAKES",
         "TRACK_INLINE_TWIST_UNINVERTED", "TRACK_QUARTER_LOOP_UNINVERTED"},
     ExtraTrackPieces |-> {},
     CoveredTrackPieces |-> {},
     StartTrackPiece |-> "TRACK_ELEM_END_STATION",
     TrackPaintFunction |-> "get_track_paint_function_multi_dimension_rc",
     Flags |->
        {"RIDE_TYPE_FLAGS_TRACK_HAS_3_COLOURS",
         "RIDE_TYPE_FLAG_HAS_LEAVE_WHEN_ANOTHER_VEHICLE_ARRIVES_AT_STATION",
         "RIDE_TYPE_FLAGS_COMMON_COASTER", "RIDE_TYPE_FLAGS_COMMON_COASTER_NON_ALT",
         "RIDE_TYPE_FLAG_HAS_LARGE_CURVES", "RIDE_TYPE_FLAG_HAS_ALTERNATIVE_TRACK_TYPE",
         "RIDE_TYPE_FLAG_PEEP_CHECK_GFORCES", "RIDE_TYPE_FLAG_ALLOW_MULTIPLE_CIRCUITS"},
     RideModes |-> {"RIDE_MODE_CONTINUOUS_CIRCUIT",
                    "RIDE_MODE_CONTINUOUS_CIRCUIT_BLOCK_SECTIONED"},
     DefaultMode |-> "RIDE_MODE_CONTINUOUS_CIRCUIT",
     OperatingSettings |-> <<10, 27, 30, 25, 25, 0>>,
     Naming |-> <<"STR_RIDE_NAME_MULTI_DIMENSION_ROLLER_COASTER",
                  "STR_RIDE_DESCRIPTION_MULTI_DIMENSION_ROLLER_COASTER">>,
     NameConvention |-> <<"RIDE_COMPONENT_TYPE_TRAIN", "RIDE_COMPONENT_TYPE_TRACK",
                          "RIDE_COMPONENT_TYPE_STATION">>,
     EnumName |-> "RIDE_TYPE_MULTI_DIMENSION_ROLLER_COASTER",
     AvailableBreakdowns |->
        {"BREAKDOWN_SAFETY_CUT_OUT", "BREAKDOWN_RESTRAINTS_STUCK_CLOSED",
         "BREAKDOWN_RESTRAINTS_STUCK_OPEN", "BREAKDOWN_VEHICLE_MALFUNCTION",
         "BREAKDOWN_BRAKES_FAILURE"},
     Heights |-> <<40, 24, 8, 11>>,
     MaxMass |-> 78,
     LiftData |-> <<"SoundId::LiftFrictionWheels", 4, 6>>,
     RatingsCalculationFunction |-> "ride_ratings_calculate_multi_dimension_roller_coaster",
     RatingsMultipliers |-> <<50, 30, 10>>,
     UpkeepCosts |-> <<75, 20, 90, 11, 3, 15>>,
     BuildCosts |-> <<180, 5, 50>>,
     DefaultPrices |-> <<20, 20>>,
     DefaultMusic |-> "MUSIC_STYLE_ROCK_STYLE_3",
     PhotoItem |-> "SHOP_ITEM_PHOTO2",
     BonusValue |-> 100,
     ColourPresets |-> <<<<"COLOUR_BRIGHT_PINK", "COLOUR_YELLOW", "COLOUR_YELLOW">>,
                         <<"COLOUR_LIGHT_PURPLE", "COLOUR_BRIGHT_RED", "COLOUR_BRIGHT_RED">>,
                         <<"COLOUR_BORDEAUX_RED", "COLOUR_WHITE", "COLOUR_WHITE">>>>,
     ColourPreview |-> <<"SPR_RIDE_DESIGN_PREVIEW_MULTI_DIMENSION_ROLLER_COASTER_TRACK",
                         "SPR_RIDE_DESIGN_PREVIEW_MULTI_DIMENSION_ROLLER_COASTER_SUPPORTS">>,
     ColourKey |-> "RideColourKey::Ride"]

\* Mutant of MultiDimensionRollerCoasterAltRTD: the alternate carries more mass
MultiDimensionRollerCoasterAltRTDHeavier ==
    [MultiDimensionRollerCoasterRTD EXCEPT
        !.AlternateType = "RIDE_TYPE_NULL",
        !.Category = "RIDE_CATEGORY_NONE",
        !.TrackPaintFunction = "nullptr",
        !.Naming = <<"STR_RIDE_NAME_38", "STR_RIDE_DESCRIPTION_UNKNOWN">>,
        !.EnumName = "RIDE_TYPE_MULTI_DIMENSION_ROLLER_COASTER_ALT",
        !.MaxMass = 79]

MultiDimensionRollerCoasterAltRTD ==
    [AlternateType |-> "RIDE_TYPE_NULL",
     Category |-> "RIDE_CATEGORY_NONE",
     EnabledTrackPieces |->
        {"TRACK_STRAIGHT", "TRACK_FLAT_ROLL_BANKING", "TRACK_SLOPE", "TRACK_SLOPE_STEEP",
         "TRACK_S_BEND", "TRACK_CURVE_SMALL", "TRACK_CURVE", "TRACK_BRAKES",
         "TRACK_ON_RIDE_PHOTO", "TRACK_SLOPE_VERTICAL", "TRACK_BLOCK_BRAKES",
         "TRACK_INLINE_TWIST_INVERTED", "TRACK_QUARTER_LOOP_INVERTED"},
     ExtraTrackPieces |-> {},
     CoveredTrackPieces |-> {},
     StartTrackPiece |-> "TRACK_ELEM_END_STATION",
     TrackPaintFunction |-> "nullptr",
     Flags |->
        {"RIDE_TYPE_FLAGS_TRACK_HAS_3_COLOURS",
         "RIDE_TYPE_FLAG_HAS_LEAVE_WHEN_ANOTHER_VEHICLE_ARRIVES_AT_STATION",
         "RIDE_TYPE_FLAGS_COMMON_COASTER", "RIDE_TYPE_FLAG_HAS_LARGE_CURVES"},
     RideModes |-> {"RIDE_MODE_CONTINUOUS_CIRCUIT",
                    "RIDE_MODE_CONTINUOUS_CIRCUIT_BLOCK_SECTIONED"},
     DefaultMode |-> "RIDE_MODE_CONTINUOUS_CIRCUIT",
     OperatingSettings |-> <<10, 27, 30, 25, 25, 0>>,
     Naming |-> <<"STR_RIDE_NAME_38", "STR_RIDE_DESCRIPTION_UNKNOWN">>,
     NameConvention |-> <<"RIDE_COMPONENT_TYPE_TRAIN", "RIDE_COMPONENT_TYPE_TRACK",
                          "RIDE_COMPONENT_TYPE_STATION">>,
     EnumName |-> "RIDE_TYPE_MULTI_DIMENSION_ROLLER_COASTER_ALT",
     AvailableBreakdowns |->
        {"BREAKDOWN_SAFETY_CUT_OUT", "BREAKDOWN_RESTRAINTS_STUCK_CLOSED",
         "BREAKDOWN_RESTRAINTS_STUCK_OPEN", "BREAKDOWN_VEHICLE_MALFUNCTION",
         "BREAKDOWN_BRAKES_FAILURE"},
     Heights |-> <<40, 24, 8, 11>>,
     MaxMass |-> 78,
     LiftData |-> <<"SoundId::LiftFrictionWheels", 4, 6>>,
     RatingsCalculationFunction |-> "ride_ratings_calculate_multi_dimension_roller_coaster",
     RatingsMultipliers |-> <<50, 30, 10>>,
     UpkeepCosts |-> <<75, 20, 90, 11, 3, 15>>,
     BuildCosts |-> <<180, 5, 50>>,
     DefaultPrices |-> <<20, 20>>,
     DefaultMusic |-> "MUSIC_STYLE_ROCK_STYLE_3",
     PhotoItem |-> "SHOP_ITEM_PHOTO2",
     BonusValue |-> 100,
     ColourPresets |-> <<<<"COLOUR_BRIGHT_PINK", "COLOUR_YELLOW", "COLOUR_YELLOW">>,
                         <<"COLOUR_LIGHT_PURPLE", "COLOUR_BRIGHT_RED", "COLOUR_BRIGHT_RED">>,
                         <<"COLOUR_BORDEAUX_RED", "COLOUR_WHITE", "COLOUR_WHITE">>>>,
     ColourPreview |-> <<"SPR_RIDE_DESIGN_PREVIEW_MULTI_DIMENSION_ROLLER_COASTER_TRACK",
                         "SPR_RIDE_DESIGN_PREVIEW_MULTI_DIMENSION_ROLLER_COASTER_SUPPORTS">>,
     ColourKey |-> "RideColourKey::Ride"]

\* The descriptors of the header, each under the ride type its EnumName names
RideTypes ==
    {MultiDimensionRollerCoasterRTD.EnumName, MultiDimensionRollerCoasterAltRTD.EnumName}

RideTypeDescriptor(type) ==
    IF type = MultiDimensionRollerCoasterRTD.EnumName
    THEN MultiDimensionRollerCoasterRTD
    ELSE MultiDimensionRollerCoasterAltRTD

RideFields == DOMAIN MultiDimensionRollerCoasterRTD

\* A reader picks a ride type and a field of its descriptor
SelectRideType(type, field) ==
    /\ ride' = [start |-> type, type |-> type, field |-> field, hops |-> 0,
                ended |-> FALSE]
    /\ UNCHANGED <<pc, crashed, queueVars, uiVars, calls, clockVars, joyVars, modVars,
                   modEnv, viewEnv, viewCalls, frameVars>>

\* The reader turns to another field of the descriptor at hand
ReadField(field) ==
    /\ ride.type \in RideTypes
    /\ ride.field # field
    /\ ride' = [ride EXCEPT !.field = field]
    /\ UNCHANGED <<pc, crashed, queueVars, uiVars, calls, clockVars, joyVars, modVars,
                   modEnv, viewEnv, viewCalls, frameVars>>

\* The reader follows AlternateType: to the descriptor of the alternate type,
\* or to the end of the chain when the field is RIDE_TYPE_NULL
FollowAlternateType ==
    /\ ride.type \in RideTypes
    /\ ~ride.ended
    /\ LET alternate == RideTypeDescriptor(ride.type).AlternateType
       IN  ride' = IF alternate = "RIDE_TYPE_NULL"
                   THEN [ride EXCEPT !.ended = TRUE]
                   ELSE [ride EXCEPT !.type = alternate, !.hops = @ + 1]
    /\ UNCHANGED <<pc, crashed, queueVars, uiVars, calls, clockVars, joyVars, modVars,
                   modEnv, viewEnv, viewCalls, frameVars>>

InitRide == InitWith(QuietEnv)

NextRide ==
    \/ \E type \in RideTypes, field \in RideFields : SelectRideType(type, field)
    \/ \E field \in RideFields : ReadField(field)
    \/ FollowAlternateType

SpecRide == InitRide /\ [][NextRide]_vars

C14_DifferingFields ==
    {"AlternateType", "Category", "EnabledTrackPieces", "TrackPaintFunction", "Flags",
     "Naming", "EnumName"}

\* C14: the two descriptors have the same fields and the same value in every
\* field other than AlternateType, Category, EnabledTrackPieces,
\* TrackPaintFunction, Flags, Naming and EnumName, so such a field reads the
\* same at every descriptor a walk along AlternateType passes; the main
\* descriptor's AlternateType is RIDE_TYPE_MULTI_DIMENSION_ROLLER_COASTER_ALT
\* and the alternate's is RIDE_TYPE_NULL, so a walk from the main type makes
\* exactly one hop before it ends.
C14_DescriptorsAgree ==
    /\ DOMAIN MultiDimensionRollerCoasterAltRTD = RideFields
    /\ \A f \in RideFields \ C14_DifferingFields :
          MultiDimensionRollerCoasterRTD[f] = MultiDimensionRollerCoasterAltRTD[f]
    /\ MultiDimensionRollerCoasterRTD.AlternateType
          = "RIDE_TYPE_MULTI_DIMENSION_ROLLER_COASTER_ALT"
    /\ MultiDimensionRollerCoasterAltRTD.AlternateType = "RIDE_TYPE_NULL"
    /\ (ride.type \in RideTypes /\ ride.field \notin C14_DifferingFields)
          => RideTypeDescriptor(ride.type)[ride.field]
                = RideTypeDescriptor(ride.start)[ride.field]
    /\ ride.start = MultiDimensionRollerCoasterRTD.EnumName
          => /\ ride.hops <= 1
             /\ ride.ended
                  => /\ ride.hops = 1
                     /\ ride.type = MultiDimensionRollerCoasterAltRTD.EnumName

\* A walk from the main type has ended at the alternate descriptor after one
\* hop and reads MaxMass there.
C14_Witness ==
    /\ ride.start = "RIDE_TYPE_MULTI_DIMENSION_ROLLER_COASTER"
    /\ ride.type = "RIDE_TYPE_MULTI_DIMENSION_ROLLER_COASTER_ALT"
    /\ ride.hops = 1
    /\ ride.ended
    /\ ride.field = "MaxMass"
    /\ RideTypeDescriptor(ride.type)[ride.field] = 78

====
